---- MODULE Spec2Model ----
(***************************************************************************)
(* Model of monarch_converter.main: a Mint-style transaction table is read, *)
(* its columns are rewritten, an optional account-mapping stub is written,  *)
(* and the table is partitioned by account into row-bounded CSV chunks      *)
(* whose filenames are kept unique by a registry.                           *)
(*                                                                          *)
(* Text that is compared, sorted or formatted (account names, slugs,        *)
(* filenames) is a sequence of ASCII codes.  The helper path and the chunk  *)
(* paths are taken to be different paths.                                   *)
(***************************************************************************)
EXTENDS Integers, Sequences, FiniteSets, TLC

\* ------------------------------------------------------------------ bounds
MaxLen == 3
MaxMaxRows == 2

\* -------------------------------------------------------- program constant
SlugMaxLength == 50

\* ------------------------------------------------------------ text helpers
\* a null date value
NULL == [null |-> TRUE, year |-> 0, month |-> 0, day |-> 0]

\* what is at a path: nothing, or a CSV file with these rows
NoFile == [exists |-> FALSE, rows |-> <<>>]
File(rows) == [exists |-> TRUE, rows |-> rows]

Hyphen == 45

IsUpper(c) == c >= 65 /\ c <= 90
IsAlnum(c) == (c >= 48 /\ c <= 57) \/ (c >= 65 /\ c <= 90) \/ (c >= 97 /\ c <= 122)
Lower(c) == IF IsUpper(c) THEN c + 32 ELSE c

RECURSIVE StripLeft(_)
StripLeft(s) ==
    IF s # <<>> /\ Head(s) = Hyphen THEN StripLeft(Tail(s)) ELSE s

RECURSIVE StripRight(_)
StripRight(s) ==
    IF s # <<>> /\ s[Len(s)] = Hyphen THEN StripRight(SubSeq(s, 1, Len(s) - 1)) ELSE s

Strip(s) == StripRight(StripLeft(s))

\* lowercases, then turns every run of characters outside [-a-z0-9] into one
\* hyphen (a hyphen next to such a run merges with it)
RECURSIVE Dashed(_, _)
Dashed(s, acc) ==
    IF s = <<>> THEN acc
    ELSE LET c == Lower(Head(s))
             d == IF IsAlnum(c) THEN c ELSE Hyphen
         IN  IF d = Hyphen /\ acc # <<>> /\ acc[Len(acc)] = Hyphen
             THEN Dashed(Tail(s), acc)
             ELSE Dashed(Tail(s), Append(acc, d))

Truncate(s, n) == IF Len(s) > n THEN SubSeq(s, 1, n) ELSE s

\* slugify(account, lowercase=True, separator='-', max_length=50)
slugify(text) ==
    Strip(Truncate(Strip(Dashed(text, <<>>)), SlugMaxLength))

\* the account names of the input files: "Checking", "My Bank!", "My Bank?",
\* and two names of 51 characters that differ in the last one
Checking == <<67, 104, 101, 99, 107, 105, 110, 103>>
MyBankBang == <<77, 121, 32, 66, 97, 110, 107, 33>>
MyBankQuery == <<77, 121, 32, 66, 97, 110, 107, 63>>
LongNameB == [i \in 1..SlugMaxLength |-> 97] \o <<98>>
LongNameC == [i \in 1..SlugMaxLength |-> 97] \o <<99>>

AccountNames == {Checking, MyBankBang, MyBankQuery, LongNameB, LongNameC}

\* the slug of every account name, computed once
Slugs == [a \in AccountNames |-> slugify(a)]

\* str(n) for n >= 0
RECURSIVE Decimal(_)
Decimal(n) ==
    IF n < 10 THEN <<48 + n>> ELSE Decimal(n \div 10) \o <<48 + (n % 10)>>

\* "monarch-" and ".csv"
MonarchPrefix == <<109, 111, 110, 97, 114, 99, 104, 45>>
CsvSuffix == <<46, 99, 115, 118>>

\* variant: the slug is left out of the filename
get_output_filename_NoSlug(account, fname_cnt) ==
    MonarchPrefix \o Decimal(fname_cnt) \o CsvSuffix

get_output_filename(account, fname_cnt) ==
    MonarchPrefix \o Slugs[account] \o <<Hyphen>> \o Decimal(fname_cnt) \o CsvSuffix

\* byte-wise lexicographic order of text
RECURSIVE StrLess(_, _)
StrLess(a, b) ==
    IF b = <<>> THEN FALSE
    ELSE IF a = <<>> THEN TRUE
    ELSE IF Head(a) < Head(b) THEN TRUE
    ELSE IF Head(a) > Head(b) THEN FALSE
    ELSE StrLess(Tail(a), Tail(b))

\* ------------------------------------------------------------------ inputs
GoodDate == [mm |-> 3, dd |-> 15, yyyy |-> 2023]
BadDate == [mm |-> 13, dd |-> 45, yyyy |-> 2023]

RowKinds ==
    { [Date |-> GoodDate, TransactionType |-> "debit", Amount |-> 50],
      [Date |-> BadDate, TransactionType |-> "credit", Amount |-> 20],
      [Date |-> GoodDate, TransactionType |-> "Debit", Amount |-> 7],
      [Date |-> GoodDate, TransactionType |-> "debit", Amount |-> -3] }

DefaultKind == [Date |-> GoodDate, TransactionType |-> "debit", Amount |-> 50]

\* the i-th row of the input file; Description identifies the row
MkRow(i, account, kind) ==
    [ Date |-> kind.Date,
      Description |-> i,
      OriginalDescription |-> i,
      Amount |-> kind.Amount,
      TransactionType |-> kind.TransactionType,
      Category |-> "cat",
      AccountName |-> account,
      Labels |-> "",
      Notes |-> "" ]

TranslateFiles ==
    { << [Mint |-> MyBankBang, Monarch |-> Checking],
         [Mint |-> MyBankQuery, Monarch |-> MyBankBang] >>,
      << [Mint |-> Checking, Monarch |-> MyBankBang],
         [Mint |-> Checking, Monarch |-> MyBankQuery] >> }

\* ------------------------------------------------------------------- state
VARIABLES
    input_csv,                       \* content of input_file
    translate_csv,                   \* content of account_mapping_translate_file
    output_dir,
    account_mapping_helper_file,
    account_mapping_translate_file,
    max_rows,
    pc,                              \* position in main
    error,                           \* exception that left main, or "none"
    input_read,                      \* pl.read_csv(input_file) has run
    df,
    helper_csv,                      \* content of the helper file, or NoFile
    files,                           \* output_dir: filename -> rows
    output_filenames,
    partitions,                      \* groups not yet iterated
    account_name,
    account_df,
    fname_cnt,
    offset,                          \* next i of range(0, df.height, max_rows)
    chunks                           \* log of the chunks handed to write_csv

vars == << input_csv, translate_csv, output_dir, account_mapping_helper_file,
           account_mapping_translate_file, max_rows, pc, error, input_read, df,
           helper_csv, files, output_filenames, partitions, account_name,
           account_df, fname_cnt, offset, chunks >>

config == << input_csv, translate_csv, output_dir, account_mapping_helper_file,
             account_mapping_translate_file, max_rows >>

loopvars == << partitions, account_name, account_df, fname_cnt, offset >>

NoFiles == [f \in {} |-> <<>>]

WriterTables ==
    UNION { { [i \in 1..n |-> MkRow(i, a[i], DefaultKind)] : a \in [1..n -> AccountNames] }
            : n \in 0..MaxLen }

TransformTables ==
    UNION { { [i \in 1..n |-> MkRow(i, Checking, k[i])] : k \in [1..n -> RowKinds] }
            : n \in 1..MaxLen }

Init ==
    /\ input_csv \in WriterTables \cup TransformTables
    /\ account_mapping_translate_file \in {"", "translate.csv"}
    /\ IF account_mapping_translate_file = ""
       THEN translate_csv = <<>>
       ELSE translate_csv \in TranslateFiles
    /\ output_dir \in {"", "out"}
    /\ account_mapping_helper_file \in {"", "helper.csv"}
    /\ max_rows \in 0..MaxMaxRows
    /\ pc = "read"
    /\ error = "none"
    /\ input_read = FALSE
    /\ df = <<>>
    /\ helper_csv = NoFile
    /\ files = NoFiles
    /\ output_filenames = {}
    /\ partitions = <<>>
    /\ account_name = <<>>
    /\ account_df = <<>>
    /\ fname_cnt = 1
    /\ offset = 0
    /\ chunks = <<>>

\* ------------------------------------------------------------- Transformer
IsLeap(y) == (y % 4 = 0 /\ y % 100 # 0) \/ y % 400 = 0

DaysIn(m, y) ==
    IF m = 2 THEN (IF IsLeap(y) THEN 29 ELSE 28)
    ELSE IF m \in {4, 6, 9, 11} THEN 30 ELSE 31

\* str.strptime(pl.Date, "%m/%d/%Y", strict=False)
ParseDate(d) ==
    IF d.mm >= 1 /\ d.mm <= 12 /\ d.dd >= 1 /\ d.dd <= DaysIn(d.mm, d.yyyy)
    THEN [null |-> FALSE, year |-> d.yyyy, month |-> d.mm, day |-> d.dd]
    ELSE NULL

\* variant: the comparison ignores case
SignedAmount_AnyCase(transaction_type, amount) ==
    IF transaction_type \in {"debit", "Debit", "DEBIT"} THEN amount * (-1) ELSE amount

\* when(Transaction Type == "debit").then(Amount * -1).otherwise(Amount)
SignedAmount(transaction_type, amount) ==
    IF transaction_type = "debit" THEN amount * (-1) ELSE amount

\* {row["Mint"]: row["Monarch"] for row in ...}: a later row replaces an earlier one
RECURSIVE LoadTranslations(_, _)
LoadTranslations(rows, acc) ==
    IF rows = <<>> THEN acc
    ELSE LET r == Head(rows)
         IN  LoadTranslations(Tail(rows),
                 [k \in DOMAIN acc \cup {r.Mint} |-> IF k = r.Mint THEN r.Monarch ELSE acc[k]])

\* variant: a replaced value is looked up again
Replace_Chained(value, map_translations) ==
    IF value \in DOMAIN map_translations
    THEN IF map_translations[value] \in DOMAIN map_translations
         THEN map_translations[map_translations[value]]
         ELSE map_translations[value]
    ELSE value

\* Series.replace(mapping) on one value
Replace(value, map_translations) ==
    IF value \in DOMAIN map_translations THEN map_translations[value] ELSE value

\* variant: rows whose account is not a key are dropped (an inner join)
TranslateDf_DropUnmapped(d, map_translations) ==
    LET kept == SelectSeq(d, LAMBDA r : r.AccountName \in DOMAIN map_translations)
    IN  [i \in 1..Len(kept) |-> [kept[i] EXCEPT !.AccountName = map_translations[@]]]

\* df.with_columns(pl.col("Account Name").replace(map_translations))
TranslateDf(d, map_translations) ==
    [i \in 1..Len(d) |-> [d[i] EXCEPT !.AccountName = Replace(@, map_translations)]]

\* drop / rename / select
Reshape(r) ==
    [ Date |-> r.Date,
      Merchant |-> r.Description,
      Category |-> r.Category,
      Account |-> r.AccountName,
      OriginalStatement |-> r.OriginalDescription,
      Notes |-> r.Notes,
      Amount |-> r.Amount,
      Tags |-> r.Labels ]

ReadInput ==
    /\ pc = "read" /\ error = "none"
    /\ df' = input_csv
    /\ input_read' = TRUE
    /\ pc' = "date"
    /\ UNCHANGED << config, error, helper_csv, files, output_filenames, loopvars, chunks >>

ConvertDate ==
    /\ pc = "date" /\ error = "none"
    /\ df' = [i \in 1..Len(df) |-> [df[i] EXCEPT !.Date = ParseDate(@)]]
    /\ pc' = "amount"
    /\ UNCHANGED << config, error, input_read, helper_csv, files, output_filenames,
                    loopvars, chunks >>

AdjustAmount ==
    /\ pc = "amount" /\ error = "none"
    /\ df' = [i \in 1..Len(df) |->
                [df[i] EXCEPT !.Amount = SignedAmount(df[i].TransactionType, @)]]
    /\ pc' = "translate"
    /\ UNCHANGED << config, error, input_read, helper_csv, files, output_filenames,
                    loopvars, chunks >>

Translate ==
    /\ pc = "translate" /\ error = "none"
    /\ df' = IF account_mapping_translate_file # ""
             THEN TranslateDf(df, LoadTranslations(translate_csv, NoFiles))
             ELSE df
    /\ pc' = "reshape"
    /\ UNCHANGED << config, error, input_read, helper_csv, files, output_filenames,
                    loopvars, chunks >>

ReshapeColumns ==
    /\ pc = "reshape" /\ error = "none"
    /\ df' = [i \in 1..Len(df) |-> Reshape(df[i])]
    /\ pc' = "helper"
    /\ UNCHANGED << config, error, input_read, helper_csv, files, output_filenames,
                    loopvars, chunks >>

\* --------------------------------------------------- Mapping-helper emitter
Min(S) == CHOOSE x \in S : \A y \in S : x = y \/ StrLess(x, y)

RECURSIVE SortSet(_)
SortSet(S) ==
    IF S = {} THEN <<>> ELSE <<Min(S)>> \o SortSet(S \ {Min(S)})

\* variant: the column as it is, neither deduplicated nor sorted
UniqueSorted_Raw(d) == [i \in 1..Len(d) |-> d[i].Account]

\* df["Account"].unique().sort()
UniqueSorted(d) == SortSet({ d[i].Account : i \in 1..Len(d) })

HelperRows(d) ==
    LET u == UniqueSorted(d)
    IN  [i \in 1..Len(u) |-> [Mint |-> u[i], Monarch |-> u[i]]]

\* what a write_csv that raised may leave at its path: the path as it was,
\* or a file holding only the first rows
PartialWrites(before, rows) ==
    {before} \cup { File(SubSeq(rows, 1, k)) : k \in 0..(Len(rows) - 1) }

WriteHelper ==
    /\ pc = "helper" /\ error = "none"
    /\ helper_csv' = IF account_mapping_helper_file # "" THEN File(HelperRows(df)) ELSE helper_csv
    /\ pc' = "partition"
    /\ UNCHANGED << config, error, input_read, df, files, output_filenames,
                    loopvars, chunks >>

WriteHelperFail ==
    /\ pc = "helper" /\ error = "none"
    /\ account_mapping_helper_file # ""
    /\ helper_csv' \in PartialWrites(helper_csv, HelperRows(df))
    /\ error' = "WriteError"
    /\ UNCHANGED << config, pc, input_read, df, files, output_filenames,
                    loopvars, chunks >>

\* -------------------------------------------------------- Partitioner/Writer
\* the distinct accounts of d, in order of first appearance
RECURSIVE GroupKeys(_, _)
GroupKeys(d, keys) ==
    IF d = <<>> THEN keys
    ELSE IF \E k \in 1..Len(keys) : keys[k] = Head(d).Account
         THEN GroupKeys(Tail(d), keys)
         ELSE GroupKeys(Tail(d), Append(keys, Head(d).Account))

RowsOf(d, account) == SelectSeq(d, LAMBDA r : r.Account = account)

\* df.partition_by("Account", as_dict=True).items()
PartitionBy(d) ==
    LET keys == GroupKeys(d, <<>>)
    IN  [k \in 1..Len(keys) |-> [account |-> keys[k], rows |-> RowsOf(d, keys[k])]]

\* variant: the slice takes one row too many
Slice_OneMore(d, i, length) ==
    SubSeq(d, i + 1, IF i + length + 1 < Len(d) THEN i + length + 1 ELSE Len(d))

\* df.slice(i, length)
Slice(d, i, length) ==
    SubSeq(d, i + 1, IF i + length < Len(d) THEN i + length ELSE Len(d))

\* variant: the loop tests after incrementing
RECURSIVE FreeCount_Skip(_, _, _)
FreeCount_Skip(account, cnt, taken) ==
    IF get_output_filename(account, cnt + 1) \in taken
    THEN FreeCount_Skip(account, cnt + 1, taken)
    ELSE cnt + 1

\* variant: the loop is missing
FreeCount_NoLoop(account, cnt, taken) == cnt

\* the while loop: the first count from cnt on whose filename is not taken
RECURSIVE FreeCount(_, _, _)
FreeCount(account, cnt, taken) ==
    IF get_output_filename(account, cnt) \in taken
    THEN FreeCount(account, cnt + 1, taken)
    ELSE cnt

\* variant: the filename is not recorded
Register_NoAdd(taken, out_filename) == taken

\* output_filenames.add(out_filename)
Register(taken, out_filename) == taken \cup {out_filename}

\* the directory after a file is written
WriteFile(dir, name, rows) ==
    [f \in DOMAIN dir \cup {name} |-> IF f = name THEN rows ELSE dir[f]]

Partition ==
    /\ pc = "partition" /\ error = "none"
    /\ output_filenames' = {}
    /\ IF output_dir # ""
       THEN /\ partitions' = PartitionBy(df)
            /\ pc' = "account"
       ELSE /\ partitions' = partitions
            /\ pc' = "done"
    /\ UNCHANGED << config, error, input_read, df, helper_csv, files,
                    account_name, account_df, fname_cnt, offset, chunks >>

NextAccount ==
    /\ pc = "account" /\ error = "none"
    /\ IF partitions = <<>>
       THEN /\ pc' = "done"
            /\ UNCHANGED loopvars
       ELSE /\ account_name' = Head(partitions).account
            /\ account_df' = Head(partitions).rows
            /\ partitions' = Tail(partitions)
            /\ fname_cnt' = 1
            /\ offset' = 0
            /\ pc' = "split"
    /\ UNCHANGED << config, error, input_read, df, helper_csv, files,
                    output_filenames, chunks >>

\* split_dataframe_iter is entered when the inner for asks for its first chunk
SplitRaise ==
    /\ pc = "split" /\ error = "none"
    /\ max_rows <= 0
    /\ error' = "ValueError"
    /\ UNCHANGED << config, pc, input_read, df, helper_csv, files,
                    output_filenames, loopvars, chunks >>

SplitExhausted ==
    /\ pc = "split" /\ error = "none"
    /\ max_rows > 0
    /\ offset >= Len(account_df)
    /\ pc' = "account"
    /\ UNCHANGED << config, error, input_read, df, helper_csv, files,
                    output_filenames, loopvars, chunks >>

\* the chunk the generator yields next, with the filename the loop settles on
NextChunk ==
    LET cnt == FreeCount(account_name, fname_cnt, output_filenames)
    IN  [ account |-> account_name,
          offset |-> offset,
          first_cnt |-> fname_cnt,
          fname_cnt |-> cnt,
          out_filename |-> get_output_filename(account_name, cnt),
          rows |-> Slice(account_df, offset, max_rows) ]

WriteChunk ==
    /\ pc = "split" /\ error = "none"
    /\ max_rows > 0
    /\ offset < Len(account_df)
    /\ LET c == NextChunk
       IN  /\ fname_cnt' = c.fname_cnt
           /\ output_filenames' = Register(output_filenames, c.out_filename)
           /\ files' = WriteFile(files, c.out_filename, c.rows)
           /\ chunks' = Append(chunks, c)
    /\ offset' = offset + max_rows
    /\ UNCHANGED << config, pc, error, input_read, df, helper_csv,
                    partitions, account_name, account_df >>

WriteChunkFail ==
    /\ pc = "split" /\ error = "none"
    /\ max_rows > 0
    /\ offset < Len(account_df)
    /\ LET c == NextChunk
       IN  /\ fname_cnt' = c.fname_cnt
           /\ output_filenames' = Register(output_filenames, c.out_filename)
           /\ \E left \in PartialWrites(IF c.out_filename \in DOMAIN files
                                        THEN File(files[c.out_filename]) ELSE NoFile, c.rows) :
                  files' = IF left.exists THEN WriteFile(files, c.out_filename, left.rows)
                           ELSE files
           /\ chunks' = Append(chunks, c)
    /\ error' = "WriteError"
    /\ UNCHANGED << config, pc, input_read, df, helper_csv,
                    partitions, account_name, account_df, offset >>

Next ==
    \/ ReadInput
    \/ ConvertDate
    \/ AdjustAmount
    \/ Translate
    \/ ReshapeColumns
    \/ WriteHelper
    \/ WriteHelperFail
    \/ Partition
    \/ NextAccount
    \/ SplitRaise
    \/ SplitExhausted
    \/ WriteChunk
    \/ WriteChunkFail

Spec == Init /\ [][Next]_vars

\* ---------------------------------------------------------------- properties
\* the account of a row, before or after the reshape
AccountOf(r) == IF "Account" \in DOMAIN r THEN r.Account ELSE r.AccountName

AccountsIn(d) == { AccountOf(d[i]) : i \in 1..Len(d) }

\* positions in the chunk log of the chunks of one account
ChunksOf(account) == { i \in 1..Len(chunks) : chunks[i].account = account }

\* the first candidate of chunk i was already in the registry
Collided(i) == chunks[i].first_cnt # chunks[i].fname_cnt

SameSlug(a, b) == Slugs[a] = Slugs[b]

\* C1: the filenames allocated in a run are pairwise distinct, also across
\* accounts with the same slug, so every chunk written is still on disk
\* with its own rows.
C1_FilenamesDistinct ==
    /\ \A i, j \in 1..Len(chunks) :
          i # j => chunks[i].out_filename # chunks[j].out_filename
    /\ error = "none" =>
          /\ Cardinality(DOMAIN files) = Len(chunks)
          /\ \A i \in 1..Len(chunks) :
                /\ chunks[i].out_filename \in DOMAIN files
                /\ files[chunks[i].out_filename] = chunks[i].rows

C1_Witness ==
    /\ pc = "done"
    /\ \E i, j \in 1..Len(chunks) :
          /\ chunks[i].account # chunks[j].account
          /\ SameSlug(chunks[i].account, chunks[j].account)
    /\ \E i, j \in 1..Len(chunks) :
          i # j /\ chunks[i].account = chunks[j].account

\* the files of the given chunk-log positions, concatenated in increasing
\* order of the index <n> of their filenames
RECURSIVE ConcatByIndex(_)
ConcatByIndex(S) ==
    IF S = {} THEN <<>>
    ELSE LET i == CHOOSE x \in S : \A y \in S : chunks[x].fname_cnt <= chunks[y].fname_cnt
         IN  files[chunks[i].out_filename] \o ConcatByIndex(S \ {i})

\* C2: with max_rows >= 1 every file has at most max_rows rows, and after a
\* complete run the files of each account, concatenated by filename index,
\* are that account's rows of the transformed table in their original order.
C2_ChunkBoundAndReconstruction ==
    /\ max_rows >= 1 => \A f \in DOMAIN files : Len(files[f]) <= max_rows
    /\ (pc = "done" /\ output_dir # "" /\ max_rows >= 1) =>
          \A a \in AccountsIn(df) :
             ConcatByIndex(ChunksOf(a)) = SelectSeq(df, LAMBDA r : r.Account = a)

C2_Witness ==
    /\ pc = "done" /\ max_rows >= 1
    /\ \E a \in AccountsIn(df) :
          /\ Cardinality(ChunksOf(a)) >= 2
          /\ \E i \in ChunksOf(a) : Len(chunks[i].rows) = max_rows
          /\ \E i \in ChunksOf(a) : chunks[i].fname_cnt > Cardinality(ChunksOf(a))
          /\ \E b \in AccountsIn(df) : b # a /\ SameSlug(a, b)

\* C3: with max_rows <= 0 the error is raised before the input file is read
\* and before any helper or chunk file is written.
C3_ConfigErrorBeforeIO ==
    error = "ValueError" =>
        /\ ~input_read
        /\ helper_csv = NoFile
        /\ files = NoFiles

CeilDiv(k, m) == (k + m - 1) \div m

\* C4: after a complete run with max_rows >= 1, an account with k rows whose
\* slug no other account shares has exactly the files numbered
\* 1..ceil(k/max_rows), the j-th holding its rows (j-1)*max_rows up to
\* min(j*max_rows, k).
C4_FileNumbering ==
    (pc = "done" /\ output_dir # "" /\ max_rows >= 1) =>
        \A a \in AccountsIn(df) :
           (\A b \in AccountsIn(df) : b # a => ~SameSlug(a, b)) =>
              LET rows == SelectSeq(df, LAMBDA r : r.Account = a)
                  k == Len(rows)
                  n == CeilDiv(k, max_rows)
              IN  /\ { chunks[i].out_filename : i \in ChunksOf(a) }
                        = { get_output_filename(a, j) : j \in 1..n }
                  /\ \A j \in 1..n :
                        /\ get_output_filename(a, j) \in DOMAIN files
                        /\ files[get_output_filename(a, j)]
                              = SubSeq(rows, (j - 1) * max_rows + 1,
                                       IF j * max_rows < k THEN j * max_rows ELSE k)

C4_Witness ==
    /\ pc = "done" /\ max_rows = 2
    /\ \E a \in AccountsIn(df) :
          /\ \A b \in AccountsIn(df) : b # a => ~SameSlug(a, b)
          /\ Len(SelectSeq(df, LAMBDA r : r.Account = a)) = 3
          /\ Cardinality(ChunksOf(a)) = 2

AfterAmount == pc \notin {"read", "date", "amount"}
AfterTranslate == pc \notin {"read", "date", "amount", "translate"}

\* C5: the output Amount is -1 times the input Amount when Transaction Type is
\* exactly "debit", and the input Amount for every other Transaction Type.
C5_SignAdjustment ==
    AfterAmount =>
        /\ Len(df) = Len(input_csv)
        /\ \A i \in 1..Len(df) :
              df[i].Amount = IF input_csv[i].TransactionType = "debit"
                             THEN 0 - input_csv[i].Amount
                             ELSE input_csv[i].Amount

C5_Witness ==
    /\ pc = "done"
    /\ \E i, j \in 1..Len(df) :
          /\ input_csv[i].TransactionType = "debit" /\ df[i].Amount = -50
          /\ input_csv[j].TransactionType = "Debit" /\ df[j].Amount = 7

\* the rows of the translation file whose Mint is the name
RowsFor(name) == { j \in 1..Len(translate_csv) : translate_csv[j].Mint = name }

Last(S) == CHOOSE j \in S : \A k \in S : k <= j

\* C6: with a translation mapping, each row's account is the value the
\* mapping gives its input name when the name is a key, and its input name
\* otherwise; the value found is not looked up again.
C6_AccountTranslation ==
    (AfterTranslate /\ account_mapping_translate_file # "") =>
        /\ Len(df) = Len(input_csv)
        /\ \A i \in 1..Len(df) :
              LET name == input_csv[i].AccountName
              IN  AccountOf(df[i]) = IF RowsFor(name) # {}
                                     THEN translate_csv[Last(RowsFor(name))].Monarch
                                     ELSE name

C6_Witness ==
    /\ pc = "done" /\ account_mapping_translate_file # ""
    /\ \E i, j \in 1..Len(df) :
          /\ RowsFor(input_csv[i].AccountName) # {}
          /\ RowsFor(df[i].Account) # {}
          /\ df[i].Account # input_csv[i].AccountName
          /\ RowsFor(input_csv[j].AccountName) = {}
          /\ df[j].Account = input_csv[j].AccountName

HelperWritten == helper_csv.exists /\ pc # "helper"

\* C7: the helper file has one row per distinct Account of the transformed
\* table, Mint = Monarch = the account, in strictly ascending order.
C7_MappingHelper ==
    HelperWritten =>
        LET rows == helper_csv.rows
        IN  /\ { rows[i].Mint : i \in 1..Len(rows) } = AccountsIn(df)
            /\ \A i \in 1..Len(rows) : rows[i].Monarch = rows[i].Mint
            /\ \A i, j \in 1..Len(rows) : i < j => StrLess(rows[i].Mint, rows[j].Mint)

C7_Witness ==
    /\ HelperWritten
    /\ account_mapping_translate_file # ""
    /\ Len(helper_csv.rows) >= 2
    /\ Len(df) > Len(helper_csv.rows)
    /\ df[1].Account # helper_csv.rows[1].Mint

\* C8: the table has as many rows as the input file after every transform
\* step, with or without a translation mapping.
C8_RowCountPreserved ==
    input_read => Len(df) = Len(input_csv)

C8_Witness ==
    /\ pc = "helper"
    /\ account_mapping_translate_file # ""
    /\ Len(df) >= 2
    /\ \E i, j \in 1..Len(df) :
          /\ RowsFor(input_csv[i].AccountName) = {}
          /\ RowsFor(input_csv[j].AccountName) # {}

\* C9: once a write has failed nothing more happens in the run, and the step
\* in which a write fails leaves every file written before it as it was.
C9_WriteFailureStops ==
    [][ /\ error # "none" => UNCHANGED vars
        /\ (error = "none" /\ error' = "WriteError") =>
              /\ pc' = pc
              /\ pc # "helper" => helper_csv' = helper_csv
              /\ \A i \in 1..Len(chunks) :
                    /\ chunks[i].out_filename \in DOMAIN files'
                    /\ files'[chunks[i].out_filename] = chunks[i].rows ]_vars

C9_Witness ==
    /\ error = "WriteError"
    /\ pc = "split"
    /\ helper_csv.exists
    /\ Len(chunks) >= 3
    /\ chunks[Len(chunks)].out_filename \in DOMAIN files
    /\ files[chunks[Len(chunks)].out_filename] # chunks[Len(chunks)].rows

\* C10 as stated: a candidate filename is already in the registry only when
\* an earlier chunk of a different account has the same slug.
C10_CollisionOnlyAcrossAccounts ==
    \A i \in 1..Len(chunks) :
       Collided(i) =>
          \E j \in 1..(i - 1) :
             /\ chunks[j].account # chunks[i].account
             /\ SameSlug(chunks[j].account, chunks[i].account)

\* C10 as amended: a candidate filename is already in the registry exactly
\* when an earlier chunk of the run has the same slug, be it a chunk of
\* another account or an earlier chunk of the same account.
C10_CollisionCause ==
    \A i \in 1..Len(chunks) :
       Collided(i) <=>
          \E j \in 1..(i - 1) : SameSlug(chunks[j].account, chunks[i].account)

C10_Witness ==
    /\ pc = "done"
    /\ \E i \in 1..Len(chunks) :
          /\ Collided(i)
          /\ \A j \in 1..(i - 1) : chunks[j].account = chunks[i].account
    /\ \E i \in 1..Len(chunks) :
          /\ Collided(i)
          /\ \A j \in 1..(i - 1) : chunks[j].account # chunks[i].account

====
